---- MODULE Spec2Model ----
(***************************************************************************)
(* External merge sort of a binary file of ints (Main.cpp, FileInteger.h). *)
(*                                                                         *)
(* The file system is a function from file names to the sequence of ints   *)
(* each file holds; a stream is a record with a byte position.  One action *)
(* models one step of main, makeTempFiles or mergeTempFiles; pc is the     *)
(* position of the single thread of control.                               *)
(***************************************************************************)
EXTENDS Integers, Sequences, FiniteSets, TLC

\* ----------------------------------------------------------------- bounds
\* Longest unsorted input, in ints.
MaxLen == 6

\* The ints stored in files are 0 .. MaxVal.
MaxVal == 2

\* Largest value typed for maxFileInts.
MaxBound == 3

\* Most ints in the runs handed to mergeTempFiles when it is called on its own.
MaxEngineInts == 4

\* Highest run identifier a merge may allocate: stops the loops that never end.
MaxFiles == 2 * MaxLen + 2

\* Width of int, in bits, on the scaled-down platform: an input of
\* 2^(NarrowBits-1) bytes, out of reach at 32 bits, is 4 ints long.
NarrowBits == 5

\* ------------------------------------------------------ program constants
\* sizeof(int), in bytes, and the widths of int and of size_t, in bits.
IntSize == 4
IntBits == 32
SizeBits == 64

Vals == 0 .. MaxVal

\* The paths typed by the user; both lie outside the runs' numeric names.
unsortedPath == "unsorted"
sortedPath == "sorted"

VARIABLES
  pc,                     \* position of the thread of control
  abi,                    \* the build's widths, in bits: of int and of size_t
  fs,                     \* the directory: file name -> ints held
  maxFileInts,            \* main's maxFileInts, passed on to both phases
  inFile,                 \* main's ifstream inFile (makeTempFiles' unsortedFile)
  amountLeftToRead,       \* makeTempFiles
  fileNumber,             \* makeTempFiles
  numberOfFiles,          \* main: what makeTempFiles returned
  totalNumberOfFiles,     \* mergeTempFiles
  currentFileNumToMerge,  \* mergeTempFiles
  numFilesToOpen,         \* mergeTempFiles, current batch
  filesToMerge,           \* mergeTempFiles: the batch's array of ifstreams
  fileData,               \* mergeTempFiles: vector<FileInteger*>, the heap
  outFile,                \* mergeTempFiles: the batch's ofstream
  i,                      \* loop index of the two for loops of a batch
  fileToDelete            \* mergeTempFiles, cleanup loop

vars == <<pc, abi, fs, maxFileInts, inFile, amountLeftToRead, fileNumber, numberOfFiles,
          totalNumberOfFiles, currentFileNumToMerge, numFilesToOpen, filesToMerge,
          fileData, outFile, i, fileToDelete>>

mainVars == <<abi, maxFileInts, inFile, numberOfFiles>>
makeVars == <<amountLeftToRead, fileNumber>>
mergeVars == <<totalNumberOfFiles, currentFileNumToMerge, numFilesToOpen, filesToMerge,
               fileData, outFile, i, fileToDelete>>

\* ---------------------------------------------------------------- helpers
Min(a, b) == IF a < b THEN a ELSE b

Range(s) == {s[k] : k \in DOMAIN s}

\* All sequences over S of length at most n.
SeqsUpTo(S, n) == UNION {[1 .. k -> S] : k \in 0 .. n}

\* The multiset of a sequence: value -> number of occurrences.
BagOf(s) == [v \in Range(s) |-> Cardinality({k \in DOMAIN s : s[k] = v})]

IsAscending(s) == \A k \in 1 .. Len(s) - 1 : s[k] <= s[k + 1]

\* std::to_string on a non-negative int: its decimal digits.
Digit(d) ==
  CASE d = 0 -> "0" [] d = 1 -> "1" [] d = 2 -> "2" [] d = 3 -> "3" [] d = 4 -> "4"
    [] d = 5 -> "5" [] d = 6 -> "6" [] d = 7 -> "7" [] d = 8 -> "8" [] d = 9 -> "9"

RECURSIVE to_string(_)
to_string(n) == IF n < 10 THEN Digit(n) ELSE to_string(n \div 10) \o Digit(n % 10)

\* The names a run can have within the model's bounds.
RunNames == {to_string(n) : n \in 0 .. MaxFiles + 1}

\* The runs on disk: the files with a numeric name.
LiveRuns == DOMAIN fs \cap RunNames

\* ------------------------------------------------------------ file system
Exists(name) == name \in DOMAIN fs

\* open(name, ios::out): creates the file or truncates it.
\* write appends at the end of a file opened this way.
FsPut(f, name, content) ==
  [n \in DOMAIN f \cup {name} |-> IF n = name THEN content ELSE f[n]]

\* remove(name): nothing happens when the file does not exist.
FsRemove(f, name) == [n \in DOMAIN f \ {name} |-> f[n]]

\* rename(old, new): fails, changing nothing, when old does not exist;
\* otherwise new holds what old held and old is gone.
FsRename(f, old, new) ==
  IF old \in DOMAIN f
    THEN [n \in (DOMAIN f \ {old}) \cup {new} |-> IF n = new THEN f[old] ELSE f[n]]
    ELSE f

\* ---------------------------------------------------------------- integers
\* Conversion to int: the value modulo 2^w, signed, for an int of w bits.
ToInt(x) ==
  LET quarter == 2 ^ (abi.intBits - 2)
  IN  IF -quarter <= x \div 2 /\ x \div 2 < quarter
        THEN x
        ELSE ((x + 2 * quarter) % (4 * quarter)) - 2 * quarter

\* Conversion of an int to size_t: the value modulo 2^w, for a size_t of w bits.
ToSizeT(x) == IF x >= 0 THEN x ELSE x + 2 ^ abi.sizeBits

\* int n = bytes / sizeof(int): the division is made in size_t.
IntsIn(bytes) == ToInt(ToSizeT(bytes) \div IntSize)

\* ---------------------------------------------------------------- streams
\* A default-constructed ifstream or ofstream: no file, no error, position 0.
ClosedStream == [name |-> "", is_open |-> FALSE, fail |-> FALSE, pos |-> 0]

\* ifstream::open(name, in | binary): failbit when the file does not exist.
OpenIn(f, name) ==
  IF name \in DOMAIN f
    THEN [name |-> name, is_open |-> TRUE, fail |-> FALSE, pos |-> 0]
    ELSE [name |-> name, is_open |-> FALSE, fail |-> TRUE, pos |-> 0]

\* Mutant: close() forgotten.
CloseStreamNot(s) == s

\* close(): the stream keeps no file.
CloseStream(s) == [s EXCEPT !.is_open = FALSE]

\* Size in bytes of the file behind an open stream.
SizeOf(f, s) == IF s.name \in DOMAIN f THEN Len(f[s.name]) * IntSize ELSE 0

\* tellg(): -1 on a failed or closed stream.
tellg(s) == IF s.fail \/ ~s.is_open THEN -1 ELSE s.pos

\* seekg(p): nothing on a failed stream; failbit on a closed stream or for a
\* position outside the file.
seekg(f, s, p) ==
  IF s.fail THEN s
  ELSE IF ~s.is_open \/ p < 0 \/ p > SizeOf(f, s) THEN [s EXCEPT !.fail = TRUE]
  ELSE [s EXCEPT !.pos = p]

\* clear(): the error state is reset.
clear(s) == [s EXCEPT !.fail = FALSE]

\* fileLen (Main.cpp 248-265): the length in bytes as an int, and the stream as
\* the calls leave it.
fileLen(f, s) ==
  LET position == ToInt(tellg(s))
      s1 == seekg(f, s, 0)
      start == ToInt(tellg(s1))
      s2 == seekg(f, s1, SizeOf(f, s1))
      end == ToInt(tellg(s2))
      s3 == clear(s2)
      s4 == seekg(f, s3, position)
  IN  [ret |-> ToInt(end - start), stream |-> s4]

\* read((char*)&v, sizeof(int)): the outcomes [stream, value].  A read that
\* cannot deliver sizeof(int) bytes sets failbit and leaves v as it was, and v
\* was never initialised: any value.
ReadInt(f, s) ==
  IF ~s.fail /\ s.is_open /\ s.pos + IntSize <= SizeOf(f, s)
    THEN {[stream |-> [s EXCEPT !.pos = s.pos + IntSize],
           value |-> f[s.name][(s.pos \div IntSize) + 1]]}
    ELSE {[stream |-> [s EXCEPT !.fail = TRUE], value |-> v] : v \in Vals}

\* read((char*)buf, n * sizeof(int)) into a fresh new int[n]: the outcomes
\* [stream, values].  The ints the file cannot deliver stay uninitialised.
ReadBlock(f, s, n) ==
  LET first == s.pos \div IntSize
      have == IF ~s.fail /\ s.is_open
                THEN Min(n, (SizeOf(f, s) - s.pos) \div IntSize) ELSE 0
      got == [k \in 1 .. have |-> f[s.name][first + k]]
  IN  {[stream |-> IF have = n THEN [s EXCEPT !.pos = s.pos + n * IntSize]
                              ELSE [s EXCEPT !.fail = TRUE,
                                             !.pos = s.pos + have * IntSize],
        values |-> got \o junk] : junk \in [1 .. n - have -> Vals]}

\* -------------------------------------------------------------- std::sort
RECURSIVE InsertSorted(_, _)
InsertSorted(x, s) ==
  IF s = <<>> THEN <<x>>
  ELSE IF x <= Head(s) THEN <<x>> \o s
  ELSE <<Head(s)>> \o InsertSorted(x, Tail(s))

RECURSIVE SortAscending(_)
SortAscending(s) ==
  IF s = <<>> THEN <<>> ELSE InsertSorted(Head(s), SortAscending(Tail(s)))

\* Mutant: the chunk is written as it was read.
std_sort_none(s) == s

\* std::sort(sortedValues, sortedValues + numToRead)
std_sort(s) == SortAscending(s)

\* ----------------------------------------------------------- FileInteger
\* A FileInteger; ptrFileReadFrom is an index into filesToMerge.
FileInteger(p, n, v) == [ptrFileReadFrom |-> p, numLeftToRead |-> n, value |-> v]

\* The null pointers a vector<FileInteger*>(n) starts with.
NullFileInteger == FileInteger(0, 0, 0)

\* Mutant: the comparison turned round, a max-heap.
FileIntegerCompareLess(a, b) == a.value < b.value

\* FileInteger::operator(): a is ordered before b.
FileIntegerCompare(a, b) == a.value > b.value

\* Mutant: any element may be at the front.
HeapFrontAny(h) == DOMAIN h

\* front() of a heap kept with FileIntegerCompare: an element that the
\* comparator orders before no other.  Which one, among equals, depends on the
\* library's heap algorithms.
HeapFront(h) ==
  {j \in DOMAIN h : \A k \in DOMAIN h : ~FileIntegerCompare(h[j], h[k])}

\* pop_heap then pop_back: the front leaves the vector.
RemoveAt(h, j) == [k \in 1 .. Len(h) - 1 |-> IF k < j THEN h[k] ELSE h[k + 1]]

\* =================================================================== main
\* The state after the three prompts are answered (Main.cpp 36-49): the
\* directory holds the unsorted file, or nothing when the path names no file.
Init ==
  /\ pc = "main"
  /\ \E present \in BOOLEAN, content \in SeqsUpTo(Vals, MaxLen) :
       /\ present \/ content = <<>>
       /\ fs = IF present THEN FsPut(<<>>, unsortedPath, content) ELSE <<>>
  /\ maxFileInts \in 0 .. MaxBound
  /\ abi = [intBits |-> IntBits, sizeBits |-> SizeBits]
  /\ inFile = ClosedStream
  /\ amountLeftToRead = 0
  /\ fileNumber = 0
  /\ numberOfFiles = 0
  /\ totalNumberOfFiles = 0
  /\ currentFileNumToMerge = 0
  /\ numFilesToOpen = 0
  /\ filesToMerge = <<>>
  /\ fileData = <<>>
  /\ outFile = ClosedStream
  /\ i = 0
  /\ fileToDelete = 0

\* Mutant: a bound of 1 is let through.
RejectsBoundBelowOne(m) == m < 1

\* The test of Main.cpp 51.
RejectsBound(m) == m <= 1

\* Main.cpp 51-55: exit(0) on a bound of at most 1.
MainReject ==
  /\ pc = "main"
  /\ RejectsBound(maxFileInts)
  /\ pc' = "exit"
  /\ UNCHANGED <<fs, mainVars, makeVars, mergeVars>>

\* Main.cpp 58-64: the input cannot be opened, exit(0).
MainOpenFails ==
  /\ pc = "main"
  /\ ~RejectsBound(maxFileInts)
  /\ ~OpenIn(fs, unsortedPath).is_open
  /\ inFile' = OpenIn(fs, unsortedPath)
  /\ pc' = "exit"
  /\ UNCHANGED <<fs, abi, maxFileInts, numberOfFiles, makeVars, mergeVars>>

\* Main.cpp 58-67: the input is open, makeTempFiles is called.
MainOpen ==
  /\ pc = "main"
  /\ ~RejectsBound(maxFileInts)
  /\ OpenIn(fs, unsortedPath).is_open
  /\ inFile' = OpenIn(fs, unsortedPath)
  /\ pc' = "makeTempFiles"
  /\ UNCHANGED <<fs, abi, maxFileInts, numberOfFiles, makeVars, mergeVars>>

\* ========================================================== makeTempFiles
\* Main.cpp 95-97.
MakeEntry ==
  /\ pc = "makeTempFiles"
  /\ LET r == fileLen(fs, inFile)
     IN  /\ amountLeftToRead' = IntsIn(r.ret)
         /\ inFile' = r.stream
  /\ fileNumber' = 0
  /\ pc' = "makeLoop"
  /\ UNCHANGED <<fs, abi, maxFileInts, numberOfFiles, mergeVars>>

\* Mutant: a full chunk is one int short.
NumToReadShort(left, m) == IF left < m THEN left ELSE m - 1

\* Main.cpp 103.
NumToRead(left, m) == IF left < m THEN left ELSE m

\* Main.cpp 99-124: one iteration of the loop, one run written.
MakeChunk ==
  /\ pc = "makeLoop"
  /\ amountLeftToRead > 0
  /\ LET numToRead == NumToRead(amountLeftToRead, maxFileInts)
     IN  /\ amountLeftToRead' = amountLeftToRead - numToRead
         /\ \E r \in ReadBlock(fs, inFile, numToRead) :
              /\ inFile' = r.stream
              /\ fs' = FsPut(fs, to_string(fileNumber), std_sort(r.values))
  /\ fileNumber' = fileNumber + 1
  /\ UNCHANGED <<pc, abi, maxFileInts, numberOfFiles, mergeVars>>

\* Main.cpp 126, 67-69: the count is returned and main closes the input.
MakeReturn ==
  /\ pc = "makeLoop"
  /\ ~(amountLeftToRead > 0)
  /\ numberOfFiles' = fileNumber
  /\ inFile' = CloseStream(inFile)
  /\ pc' = "mergeTempFiles"
  /\ UNCHANGED <<fs, abi, maxFileInts, makeVars, mergeVars>>

\* ========================================================= mergeTempFiles
\* Main.cpp 71, 144-147: the call, with main's numberOfFiles and maxFileInts.
MergeEntry ==
  /\ pc = "mergeTempFiles"
  /\ totalNumberOfFiles' = numberOfFiles
  /\ currentFileNumToMerge' = 0
  /\ pc' = "while"
  /\ UNCHANGED <<fs, mainVars, makeVars, numFilesToOpen, filesToMerge, fileData,
                 outFile, i, fileToDelete>>

\* Mutant: every pending run is opened.
NumFilesToOpenAll(total, current, m) == total - current

\* Main.cpp 151-155.
NumFilesToOpen(total, current, m) ==
  LET numFilesRemaining == total - current
  IN  IF numFilesRemaining < m THEN numFilesRemaining ELSE m

\* Main.cpp 149-162: a batch begins; the array of streams and the vector of
\* null pointers are made.
BatchBegin ==
  /\ pc = "while"
  /\ currentFileNumToMerge < totalNumberOfFiles
  /\ totalNumberOfFiles < MaxFiles
  /\ LET n == NumFilesToOpen(totalNumberOfFiles, currentFileNumToMerge, maxFileInts)
     IN  /\ n >= 0
         /\ numFilesToOpen' = n
         /\ filesToMerge' = [k \in 1 .. n |-> ClosedStream]
         /\ fileData' = [k \in 1 .. n |-> NullFileInteger]
  /\ i' = 0
  /\ pc' = "open"
  /\ UNCHANGED <<fs, mainVars, makeVars, totalNumberOfFiles, currentFileNumToMerge,
                 outFile, fileToDelete>>

\* Main.cpp 158: new std::ifstream[n] with a negative n throws.
BatchThrows ==
  /\ pc = "while"
  /\ currentFileNumToMerge < totalNumberOfFiles
  /\ NumFilesToOpen(totalNumberOfFiles, currentFileNumToMerge, maxFileInts) < 0
  /\ numFilesToOpen' =
       NumFilesToOpen(totalNumberOfFiles, currentFileNumToMerge, maxFileInts)
  /\ pc' = "threw"
  /\ UNCHANGED <<fs, mainVars, makeVars, totalNumberOfFiles, currentFileNumToMerge,
                 filesToMerge, fileData, outFile, i, fileToDelete>>

\* Mutant: the int just read is counted again.
NumLeftAfterFirstAll(bytes) == ToInt(ToSizeT(bytes) \div IntSize)

\* Main.cpp 172: the ints that follow the one just read.
NumLeftAfterFirst(bytes) == ToInt((ToSizeT(bytes) \div IntSize) - 1)

\* Main.cpp 162-175: one iteration, one run opened and its first int read.
OpenRun ==
  /\ pc = "open"
  /\ i < numFilesToOpen
  /\ LET opened == OpenIn(fs, to_string(currentFileNumToMerge))
     IN  \E r \in ReadInt(fs, opened) :
           LET len == fileLen(fs, r.stream)
           IN  /\ filesToMerge' = [filesToMerge EXCEPT ![i + 1] = len.stream]
               /\ fileData' = [fileData EXCEPT ![i + 1] =
                    FileInteger(i + 1, NumLeftAfterFirst(len.ret), r.value)]
  /\ i' = i + 1
  /\ currentFileNumToMerge' = currentFileNumToMerge + 1
  /\ UNCHANGED <<pc, fs, mainVars, makeVars, totalNumberOfFiles, numFilesToOpen,
                 outFile, fileToDelete>>

\* Main.cpp 177-183: make_heap, and the batch's output file is created.
MakeHeap ==
  /\ pc = "open"
  /\ ~(i < numFilesToOpen)
  /\ outFile' = [name |-> to_string(totalNumberOfFiles), is_open |-> TRUE,
                 fail |-> FALSE, pos |-> 0]
  /\ fs' = FsPut(fs, to_string(totalNumberOfFiles), <<>>)
  /\ pc' = "merge"
  /\ UNCHANGED <<mainVars, makeVars, totalNumberOfFiles, currentFileNumToMerge,
                 numFilesToOpen, filesToMerge, fileData, i, fileToDelete>>

\* Main.cpp 185-216: one iteration; the smallest leaves the heap and is
\* written, and the next int of its run, if any, enters the heap.
PopSmallest ==
  /\ pc = "merge"
  /\ Len(fileData) > 0
  /\ \E j \in HeapFront(fileData) :
       LET smallest == fileData[j]
           rest == RemoveAt(fileData, j)
           from == filesToMerge[smallest.ptrFileReadFrom]
       IN  /\ fs' = FsPut(fs, outFile.name, fs[outFile.name] \o <<smallest.value>>)
           /\ IF smallest.numLeftToRead > 0
                THEN \E r \in ReadInt(fs, from) :
                       /\ filesToMerge' =
                            [filesToMerge EXCEPT ![smallest.ptrFileReadFrom] = r.stream]
                       /\ fileData' = Append(rest,
                            FileInteger(smallest.ptrFileReadFrom,
                                        smallest.numLeftToRead - 1, r.value))
                ELSE /\ fileData' = rest
                     /\ UNCHANGED filesToMerge
  /\ outFile' = [outFile EXCEPT !.pos = outFile.pos + IntSize]
  /\ UNCHANGED <<pc, mainVars, makeVars, totalNumberOfFiles, currentFileNumToMerge,
                 numFilesToOpen, i, fileToDelete>>

\* Mutant: the cleanup starts one run late.
FirstFileToDeleteLate(current, n) == current - n + 1

\* Main.cpp 219.
FirstFileToDelete(current, n) == current - n

\* Main.cpp 185, 219-221: the heap is empty, the cleanup loop begins.
MergeDone ==
  /\ pc = "merge"
  /\ ~(Len(fileData) > 0)
  /\ fileToDelete' = FirstFileToDelete(currentFileNumToMerge, numFilesToOpen)
  /\ i' = 0
  /\ pc' = "cleanup"
  /\ UNCHANGED <<fs, mainVars, makeVars, totalNumberOfFiles, currentFileNumToMerge,
                 numFilesToOpen, filesToMerge, fileData, outFile>>

\* Main.cpp 221-225: one iteration; a stream is closed and its run removed.
DeleteRun ==
  /\ pc = "cleanup"
  /\ i < numFilesToOpen
  /\ filesToMerge' = [filesToMerge EXCEPT ![i + 1] = CloseStream(filesToMerge[i + 1])]
  /\ fs' = FsRemove(fs, to_string(fileToDelete))
  /\ i' = i + 1
  /\ fileToDelete' = fileToDelete + 1
  /\ UNCHANGED <<pc, mainVars, makeVars, totalNumberOfFiles, currentFileNumToMerge,
                 numFilesToOpen, fileData, outFile>>

\* Mutant: the count never grows.
NextTotalNever(total, current) == total

\* Mutant: the count grows after every batch.
NextTotalAlways(total, current) == total + 1

\* Main.cpp 229-230.
NextTotal(total, current) == IF current /= total THEN total + 1 ELSE total

\* Main.cpp 227-231: the array is freed, the count grows when runs are still
\* pending, and the scope of outFile ends, which closes it.
BatchEnd ==
  /\ pc = "cleanup"
  /\ ~(i < numFilesToOpen)
  /\ filesToMerge' = <<>>
  /\ totalNumberOfFiles' = NextTotal(totalNumberOfFiles, currentFileNumToMerge)
  /\ outFile' = CloseStream(outFile)
  /\ pc' = "while"
  /\ UNCHANGED <<fs, mainVars, makeVars, currentFileNumToMerge, numFilesToOpen,
                 fileData, i, fileToDelete>>

\* Main.cpp 149, 234, 73: the loop is left and the last run is renamed.
Rename ==
  /\ pc = "while"
  /\ ~(currentFileNumToMerge < totalNumberOfFiles)
  /\ fs' = FsRename(fs, to_string(currentFileNumToMerge), sortedPath)
  /\ pc' = "done"
  /\ UNCHANGED <<mainVars, makeVars, mergeVars>>

\* ========================================================= specifications
MergeNext ==
  \/ MergeEntry
  \/ BatchBegin
  \/ OpenRun
  \/ MakeHeap
  \/ PopSmallest
  \/ MergeDone
  \/ DeleteRun
  \/ BatchEnd
  \/ Rename

Next ==
  \/ MainReject
  \/ MainOpenFails
  \/ MainOpen
  \/ MakeEntry
  \/ MakeChunk
  \/ MakeReturn
  \/ MergeNext

\* The runs makeTempFiles writes for an input cut in chunks of k ints.
RunsOf(content, k) ==
  LET count == (Len(content) + k - 1) \div k
      chunk(r) == SubSeq(content, r * k + 1, Min(Len(content), (r + 1) * k))
  IN  [n \in {to_string(r) : r \in 0 .. count - 1} |->
         std_sort(chunk(CHOOSE r \in 0 .. count - 1 : to_string(r) = n))]

\* mergeTempFiles called by another caller than main (Main.cpp 144): the runs
\* 0 .. totalNumberOfFiles-1 are on disk, each sorted and not empty, and
\* nothing has checked maxFileInts.
InitEngine ==
  /\ pc = "mergeTempFiles"
  /\ \E content \in SeqsUpTo(Vals, MaxEngineInts), k \in 1 .. 2 :
       /\ fs = RunsOf(content, k)
       /\ numberOfFiles = (Len(content) + k - 1) \div k
  /\ maxFileInts \in -1 .. MaxBound
  /\ abi = [intBits |-> IntBits, sizeBits |-> SizeBits]
  /\ inFile = ClosedStream
  /\ amountLeftToRead = 0
  /\ fileNumber = 0
  /\ totalNumberOfFiles = 0
  /\ currentFileNumToMerge = 0
  /\ numFilesToOpen = 0
  /\ filesToMerge = <<>>
  /\ fileData = <<>>
  /\ outFile = ClosedStream
  /\ i = 0
  /\ fileToDelete = 0

NextEngine ==
  \/ MergeNext
  \/ BatchThrows

\* mergeTempFiles on its own, under any bound.
SpecEngine == InitEngine /\ [][NextEngine]_vars

\* mergeTempFiles called with a bound above 1 on runs whose ints are all 0.
\* The loop's course depends on the number of runs and on their lengths only;
\* equal ints leave the heap every choice of front.
InitMergeLoop ==
  /\ pc = "mergeTempFiles"
  /\ \E n \in 0 .. MaxLen, k \in 1 .. 2 :
       /\ fs = RunsOf([x \in 1 .. n |-> 0], k)
       /\ numberOfFiles = (n + k - 1) \div k
  /\ maxFileInts \in 2 .. MaxBound
  /\ abi = [intBits |-> IntBits, sizeBits |-> SizeBits]
  /\ inFile = ClosedStream
  /\ amountLeftToRead = 0
  /\ fileNumber = 0
  /\ totalNumberOfFiles = 0
  /\ currentFileNumToMerge = 0
  /\ numFilesToOpen = 0
  /\ filesToMerge = <<>>
  /\ fileData = <<>>
  /\ outFile = ClosedStream
  /\ i = 0
  /\ fileToDelete = 0

\* The merge loop under the one scheduling assumption a single thread needs:
\* a step that can be taken is taken.
SpecMergeLoop == InitMergeLoop /\ [][MergeNext]_vars /\ WF_vars(MergeNext)

\* mergeTempFiles called with a bound above 1 when one of the runs cannot be
\* opened (it is gone from the directory) or cannot be read (it holds no int).
InitFaulty ==
  /\ pc = "mergeTempFiles"
  /\ \E content \in SeqsUpTo(Vals, MaxEngineInts) \ {<<>>}, k \in 1 .. 2 :
       LET runs == RunsOf(content, k)
       IN  /\ numberOfFiles = (Len(content) + k - 1) \div k
           /\ \E bad \in DOMAIN runs :
                \/ fs = FsRemove(runs, bad)
                \/ fs = FsPut(runs, bad, <<>>)
  /\ maxFileInts \in 2 .. MaxBound
  /\ abi = [intBits |-> IntBits, sizeBits |-> SizeBits]
  /\ inFile = ClosedStream
  /\ amountLeftToRead = 0
  /\ fileNumber = 0
  /\ totalNumberOfFiles = 0
  /\ currentFileNumToMerge = 0
  /\ numFilesToOpen = 0
  /\ filesToMerge = <<>>
  /\ fileData = <<>>
  /\ outFile = ClosedStream
  /\ i = 0
  /\ fileToDelete = 0

\* mergeTempFiles on its own, one run faulty.
SpecFaulty == InitFaulty /\ [][MergeNext]_vars

\* The program on a platform whose int has NarrowBits bits and whose size_t has
\* twice as many, as 32 and 64: the same code, the same inputs.
InitNarrow ==
  /\ pc = "main"
  /\ \E present \in BOOLEAN, content \in SeqsUpTo(Vals, MaxLen) :
       /\ present \/ content = <<>>
       /\ fs = IF present THEN FsPut(<<>>, unsortedPath, content) ELSE <<>>
  /\ maxFileInts \in 0 .. MaxBound
  /\ abi = [intBits |-> NarrowBits, sizeBits |-> 2 * NarrowBits]
  /\ inFile = ClosedStream
  /\ amountLeftToRead = 0
  /\ fileNumber = 0
  /\ numberOfFiles = 0
  /\ totalNumberOfFiles = 0
  /\ currentFileNumToMerge = 0
  /\ numFilesToOpen = 0
  /\ filesToMerge = <<>>
  /\ fileData = <<>>
  /\ outFile = ClosedStream
  /\ i = 0
  /\ fileToDelete = 0

\* The program, run from main.
Spec == Init /\ [][Next]_vars

\* The program, run from main, on the platform of narrow ints.
SpecNarrow == InitNarrow /\ [][Next]_vars

\* ================================================================= claims
\* What the claims speak of.
Input == fs[unsortedPath]

\* out holds the ints of in, each as often as in does, in ascending order.
IsSortOf(out, in) == IsAscending(out) /\ BagOf(out) = BagOf(in)

\* The ints of the files named, one file after the other.
RECURSIVE ConcatFiles(_, _)
ConcatFiles(f, names) ==
  IF names = {} THEN <<>>
  ELSE LET n == CHOOSE x \in names : TRUE
       IN  f[n] \o ConcatFiles(f, names \ {n})

\* The part of the input makeTempFiles has not read yet.
Unread == SubSeq(Input, (inFile.pos \div IntSize) + 1, Len(Input))

\* The positions inside a batch.
BatchPcs == {"open", "merge", "cleanup"}

\* C1: when the sort has run to its end, the destination file exists and holds
\* the ints of the input, each as often as the input does.
C1_OutputHoldsInput ==
  pc = "done" => Exists(sortedPath) /\ BagOf(fs[sortedPath]) = BagOf(Input)

\* C2: the file renamed to the destination is non-decreasing.
C2_OutputAscending ==
  (pc = "done" /\ Exists(sortedPath)) => IsAscending(fs[sortedPath])

\* C2 witness: a sort of an unsorted input that took two batches has ended.
C2_Witness ==
  /\ pc = "done"
  /\ Exists(sortedPath)
  /\ totalNumberOfFiles >= 4
  /\ ~IsAscending(Input)
  /\ fs[sortedPath] /= <<>>

\* C3: once mergeTempFiles is called with a bound above 1, its loop is left
\* with every pending run consumed.
C3_MergeLoopTerminates ==
  (pc = "mergeTempFiles" /\ maxFileInts > 1)
    ~> (pc = "done" /\ currentFileNumToMerge = totalNumberOfFiles)

\* C3 witness: the loop was left after more than one batch.
C3_Witness ==
  /\ pc = "done"
  /\ maxFileInts > 1
  /\ numberOfFiles >= 5
  /\ currentFileNumToMerge = totalNumberOfFiles
  /\ totalNumberOfFiles > numberOfFiles

\* C4: after the sort no file with a run's name exists.
C4_NoRunRemains == pc = "done" => LiveRuns = {}

\* C4 witness: a sort that made three runs and merged them in two batches has
\* ended with its output in place.
C4_Witness ==
  /\ pc = "done"
  /\ numberOfFiles = 3
  /\ totalNumberOfFiles = 4
  /\ Exists(sortedPath)
  /\ Len(fs[sortedPath]) = Len(Input)

\* C5: the sort of an empty input ends with an empty file at the destination.
C5_EmptyInputEmptyOutput ==
  (pc = "done" /\ Input = <<>>) => Exists(sortedPath) /\ fs[sortedPath] = <<>>

\* C6, as the specification has it: with a bound equal to the input's length
\* one run is made and no batch is executed.
C6_SkipsMerging ==
  (Exists(unsortedPath) /\ Len(Input) >= 2 /\ maxFileInts = Len(Input))
    => /\ pc \in {"mergeTempFiles", "while", "done"} => numberOfFiles = 1
       /\ pc \notin BatchPcs

\* C6, amended: with a bound equal to the input's length (at least 2) one run,
\* run 0, is made; mergeTempFiles executes exactly one batch, of that one run,
\* which copies run 0 into run 1 and removes run 0; run 1 becomes the output.
C6_SingleRunOneBatch ==
  (Exists(unsortedPath) /\ Len(Input) >= 2 /\ maxFileInts = Len(Input))
    => /\ pc = "mergeTempFiles" =>
            /\ numberOfFiles = 1
            /\ LiveRuns = {"0"}
            /\ IsSortOf(fs["0"], Input)
       /\ pc \in BatchPcs =>
            /\ numFilesToOpen = 1
            /\ totalNumberOfFiles = 1
            /\ LiveRuns \subseteq {"0", "1"}
       /\ pc = "while" =>
            /\ totalNumberOfFiles = 1
            /\ \/ currentFileNumToMerge = 0 /\ LiveRuns = {"0"}
               \/ /\ currentFileNumToMerge = 1
                  /\ LiveRuns = {"1"}
                  /\ IsSortOf(fs["1"], Input)
       /\ pc = "done" =>
            /\ LiveRuns = {}
            /\ Exists(sortedPath)
            /\ IsSortOf(fs[sortedPath], Input)

\* C6 witness: the one batch of a sort whose bound is the input's length has
\* written its output and removed run 0.
C6_Witness ==
  /\ pc = "cleanup"
  /\ Exists(unsortedPath)
  /\ Len(Input) >= 2
  /\ maxFileInts = Len(Input)
  /\ LiveRuns = {"1"}
  /\ Len(fs["1"]) = Len(Input)

\* C7: makeTempFiles returns ceil(total / bound) and leaves the runs
\* 0 .. count-1 and no other; run r holds the r-th chunk of the input in
\* ascending order, at most bound ints; together the runs hold the input.
C7_RunsAreSortedChunks ==
  pc = "mergeTempFiles" =>
    LET total == Len(Input)
        count == numberOfFiles
        chunk(r) == SubSeq(Input, r * maxFileInts + 1,
                           Min(total, (r + 1) * maxFileInts))
    IN  /\ count * maxFileInts >= total
        /\ (count - 1) * maxFileInts < total
        /\ LiveRuns = {to_string(r) : r \in 0 .. count - 1}
        /\ \A r \in 0 .. count - 1 :
             /\ Len(fs[to_string(r)]) <= maxFileInts
             /\ IsSortOf(fs[to_string(r)], chunk(r))
        /\ BagOf(ConcatFiles(fs, LiveRuns)) = BagOf(Input)

\* C7 witness: makeTempFiles has returned three runs, the last one short, for
\* an input that was not sorted.
C7_Witness ==
  /\ pc = "mergeTempFiles"
  /\ numberOfFiles = 3
  /\ Len(Input) % maxFileInts /= 0
  /\ ~IsAscending(Input)

\* C8: the live runs hold the ints of the input, each as often as the input
\* does, until the final rename; after it exactly one file, sorted ascending,
\* holds them.  Read in the claim's favour: while makeTempFiles runs, the runs
\* together with the part of the input not read yet; between two batches, the
\* runs; inside a batch, the runs the batch has neither written nor removed.
C8_RunsHoldInput ==
  /\ pc = "makeLoop" => BagOf(ConcatFiles(fs, LiveRuns) \o Unread) = BagOf(Input)
  /\ pc \in {"mergeTempFiles", "while"} =>
       BagOf(ConcatFiles(fs, LiveRuns)) = BagOf(Input)
  /\ pc = "done" =>
       /\ LiveRuns = {}
       /\ Cardinality({n \in DOMAIN fs \ {unsortedPath} : IsSortOf(fs[n], Input)}) = 1

\* C9: a step taken with a bound of at most 1 ends the program and leaves the
\* directory and every stream as they were: nothing is opened, created, read,
\* removed or renamed.
C9_RejectedBeforeFileIO ==
  [][maxFileInts <= 1 =>
       /\ pc' = "exit"
       /\ fs' = fs
       /\ inFile' = inFile /\ ~inFile.is_open
       /\ filesToMerge' = filesToMerge
       /\ outFile' = outFile /\ ~outFile.is_open]_vars

\* C9 witness: the program has ended on a bound of 1 with an input on disk
\* that it did not open.
C9_Witness ==
  /\ pc = "exit"
  /\ maxFileInts = 1
  /\ Exists(unsortedPath)
  /\ Len(Input) > 0
  /\ ~inFile.is_open

\* C10: mergeTempFiles never executes a batch under a bound of at most 1.
C10_EngineRejectsBound == maxFileInts <= 1 => pc \notin BatchPcs

\* C11: while a stream of the batch has failed (its run could not be opened
\* or read), mergeTempFiles neither merges nor cleans up nor renames: it has
\* stopped at the failure.
C11_FailureStopsMerge ==
  (\E k \in DOMAIN filesToMerge : filesToMerge[k].fail) => pc = "open"

\* C12: when the merge loop is left exactly one run is on disk, the run
\* named currentFileNumToMerge, which the rename then moves to the destination.
C12_OneRunSurvives ==
  /\ (pc = "while" /\ ~(currentFileNumToMerge < totalNumberOfFiles)) =>
       LiveRuns = {to_string(currentFileNumToMerge)}
  /\ pc = "done" => Exists(sortedPath) /\ LiveRuns = {}

\* The cursors of the frontier: the FileIntegers of fileData that are not null.
Frontier == {k \in DOMAIN fileData : fileData[k].ptrFileReadFrom /= 0}

\* C13: the bound is never exceeded.  The buffer makeTempFiles is about to
\* allocate, and every run it has written from one, holds at most maxFileInts
\* ints; a batch has at most maxFileInts streams, open or not, and at most
\* maxFileInts FileIntegers, no two of them of the same run.
C13_BoundRespected ==
  /\ (pc = "makeLoop" /\ amountLeftToRead > 0) =>
       NumToRead(amountLeftToRead, maxFileInts) <= maxFileInts
  /\ pc = "makeLoop" =>
       \A r \in 0 .. fileNumber - 1 : Len(fs[to_string(r)]) <= maxFileInts
  /\ pc \in {"open", "merge", "cleanup"} =>
       /\ Len(filesToMerge) <= maxFileInts
       /\ Len(fileData) <= maxFileInts
       /\ \A j, k \in Frontier :
            fileData[j].ptrFileReadFrom = fileData[k].ptrFileReadFrom => j = k
       /\ \A k \in Frontier : filesToMerge[fileData[k].ptrFileReadFrom].is_open

\* C13 witness: a batch as large as the bound is being merged while runs are
\* still pending, after makeTempFiles filled its buffer to the bound.
C13_Witness ==
  /\ pc = "merge"
  /\ Len(fileData) = maxFileInts
  /\ Cardinality({k \in DOMAIN filesToMerge : filesToMerge[k].is_open}) = maxFileInts
  /\ currentFileNumToMerge < totalNumberOfFiles
  /\ Len(fs["0"]) = maxFileInts

\* The names of the runs first .. last.
NamesOf(first, last) == {to_string(r) : r \in first .. last}

\* C14: when an iteration of the loop begins the runs on disk are those
\* numbered from currentFileNumToMerge up to, not including, totalNumberOfFiles
\* (at the start of the open loop no run has gone or come yet); a batch
\* writes its output under the number totalNumberOfFiles, above every number
\* in use, so the output is no live run and no input of the batch.
C14_OutputGetsFreshNumber ==
  /\ (pc = "while" /\ currentFileNumToMerge < totalNumberOfFiles) =>
       LiveRuns = NamesOf(currentFileNumToMerge, totalNumberOfFiles - 1)
  /\ pc = "open" =>
       /\ LiveRuns = NamesOf(currentFileNumToMerge - i, totalNumberOfFiles - 1)
       /\ ~Exists(to_string(totalNumberOfFiles))
       /\ LiveRuns \subseteq NamesOf(0, totalNumberOfFiles - 1)
  /\ pc \in {"merge", "cleanup"} =>
       /\ outFile.name = to_string(totalNumberOfFiles)
       /\ \A k \in DOMAIN filesToMerge : filesToMerge[k].name /= outFile.name
       /\ LiveRuns \subseteq NamesOf(0, totalNumberOfFiles)

\* C14 witness: a second batch is writing its output, numbered above the
\* output of the first.
C14_Witness ==
  /\ pc = "merge"
  /\ totalNumberOfFiles > numberOfFiles
  /\ fs[outFile.name] /= <<>>
  /\ Exists(to_string(totalNumberOfFiles - 1))

\* What C15 says of a state: a batch that has opened its runs holds the
\* min(bound, pending) lowest-numbered pending runs, in order; and when an
\* iteration begins after a batch, the output of that batch is the last of the
\* pending runs.
C15_BatchTakesLowestPending ==
  /\ pc = "merge" =>
       LET first == currentFileNumToMerge - numFilesToOpen
       IN  /\ numFilesToOpen = Min(maxFileInts, totalNumberOfFiles - first)
           /\ \A k \in 1 .. numFilesToOpen :
                filesToMerge[k].name = to_string(first + k - 1)
           /\ LiveRuns \ {outFile.name} =
                NamesOf(first, totalNumberOfFiles - 1)
  /\ (pc = "while" /\ currentFileNumToMerge < totalNumberOfFiles
        /\ totalNumberOfFiles > numberOfFiles) =>
       /\ outFile.name = to_string(totalNumberOfFiles - 1)
       /\ Exists(outFile.name)
       /\ currentFileNumToMerge <= totalNumberOfFiles - 1

\* What C15 says of the step that ends a batch: the count grows by exactly one
\* when runs remain pending and stays as it is when none does.
C15_CountGrowsWhilePending ==
  (pc = "cleanup" /\ pc' = "while") =>
    /\ currentFileNumToMerge < totalNumberOfFiles =>
         totalNumberOfFiles' = totalNumberOfFiles + 1
    /\ currentFileNumToMerge = totalNumberOfFiles =>
         totalNumberOfFiles' = totalNumberOfFiles
    /\ currentFileNumToMerge' = currentFileNumToMerge

\* C15: each batch consumes the min(bound, pending) lowest-numbered pending
\* runs; after a batch the count grows by one exactly when runs remain
\* pending, so that the batch's output is merged by a later batch together
\* with runs not processed yet.
C15_OutputJoinsQueue ==
  []C15_BatchTakesLowestPending /\ [][C15_CountGrowsWhilePending]_vars

\* C15 witness: three runs under a bound of 2; the first batch merged runs 0
\* and 1 into run 3, and the second batch is merging run 2 with run 3.
C15_Witness ==
  /\ pc = "merge"
  /\ maxFileInts = 2
  /\ numberOfFiles = 3
  /\ Len(filesToMerge) = 2
  /\ filesToMerge[1].name = "2"
  /\ filesToMerge[2].name = "3"
  /\ Len(fs["2"]) = 1
  /\ Len(fs["3"]) = 4
  /\ outFile.name = "4"

\* The ints read so far through the streams k .. Len(streams).
RECURSIVE IntsReadFrom(_, _)
IntsReadFrom(streams, k) ==
  IF k > Len(streams) THEN 0
  ELSE (streams[k].pos \div IntSize) + IntsReadFrom(streams, k + 1)

\* What C16 says of a state: no stream is open on a file that is gone; until
\* the cleanup every input of the batch is on disk; in the cleanup the
\* frontier is empty, every input still on disk was read to its end and the
\* output holds every int read; between batches no consumed run is left.
C16_InputsKeptUntilMerged ==
  /\ \A k \in DOMAIN filesToMerge :
       filesToMerge[k].is_open => Exists(filesToMerge[k].name)
  /\ pc = "open" =>
       \A k \in 1 .. i : Exists(filesToMerge[k].name) /\ filesToMerge[k].is_open
  /\ pc = "merge" =>
       \A k \in DOMAIN filesToMerge :
         Exists(filesToMerge[k].name) /\ filesToMerge[k].is_open
  /\ pc = "cleanup" =>
       /\ fileData = <<>>
       /\ \A k \in DOMAIN filesToMerge :
            /\ Exists(filesToMerge[k].name) <=> k > i
            /\ Exists(filesToMerge[k].name) =>
                 filesToMerge[k].pos = SizeOf(fs, filesToMerge[k])
       /\ Len(fs[outFile.name]) = IntsReadFrom(filesToMerge, 1)
  /\ pc = "while" =>
       /\ filesToMerge = <<>>
       /\ LiveRuns \cap NamesOf(0, currentFileNumToMerge - 1) = {}

\* What C16 says of a step: a run leaves the directory only in the cleanup of
\* a batch whose frontier is empty, as one of its inputs, its stream closed by
\* then; or by the final rename.
C16_RemovedOnlyInCleanup ==
  \A n \in LiveRuns \ DOMAIN fs' :
    \/ pc = "while" /\ pc' = "done"
    \/ /\ pc = "cleanup"
       /\ fileData = <<>>
       /\ \E k \in DOMAIN filesToMerge :
            /\ filesToMerge[k].name = n
            /\ ~filesToMerge'[k].is_open

\* C16: an input run of a batch is deleted only after the frontier is empty
\* and all its ints are in the output, its stream closed no later than the
\* file is removed; no input of a finished batch is kept.
C16_DeletedAfterMerge ==
  []C16_InputsKeptUntilMerged /\ [][C16_RemovedOnlyInCleanup]_vars

\* C16 witness: the cleanup has closed and removed both inputs of a batch
\* whose output holds their ints.
C16_Witness ==
  /\ pc = "cleanup"
  /\ numFilesToOpen = 2
  /\ i = 2
  /\ \A k \in 1 .. 2 :
       ~filesToMerge[k].is_open /\ ~Exists(filesToMerge[k].name)
  /\ Len(fs[outFile.name]) >= 3

\* The ints of its run that a cursor's stream has not read yet.
NotYetRead(c) ==
  LET from == filesToMerge[c.ptrFileReadFrom]
  IN  (SizeOf(fs, from) - from.pos) \div IntSize

\* C17: every cursor of the frontier, first or replacement, has
\* numLeftToRead >= 0, equal to the number of ints of its run not yet read.
C17_NumLeftIsUnreadCount ==
  pc \in {"open", "merge"} =>
    \A k \in Frontier :
      /\ fileData[k].numLeftToRead >= 0
      /\ fileData[k].numLeftToRead = NotYetRead(fileData[k])

\* C17 witness: a replacement cursor with ints of its run still unread, next
\* to a first cursor of a longer run.
C17_Witness ==
  /\ pc = "merge"
  /\ Len(fs[outFile.name]) >= 2
  /\ \E k \in Frontier :
       /\ fileData[k].numLeftToRead = 1
       /\ filesToMerge[fileData[k].ptrFileReadFrom].pos = 2 * IntSize
  /\ \E k \in Frontier : fileData[k].numLeftToRead = 0

\* The ints of the inputs of the batch under way, in ascending order.
BatchSorted ==
  SortAscending(ConcatFiles(fs, {filesToMerge[k].name : k \in DOMAIN filesToMerge}))

\* C18: the output does not depend on which of several cursors of equal
\* smallest value is popped: whatever the choices, what a batch has written
\* is the beginning of the one ascending arrangement of its inputs' ints, and
\* the file renamed to the destination is the one ascending arrangement of the
\* input.
C18_OutputIgnoresTieBreak ==
  /\ pc = "merge" =>
       fs[outFile.name] = SubSeq(BatchSorted, 1, Len(fs[outFile.name]))
  /\ (pc = "done" /\ Exists(sortedPath)) => fs[sortedPath] = SortAscending(Input)

\* C18 witness: after a pop of some value, two cursors of that same value, of
\* different runs with different numbers of ints left, are both at the front.
C18_Witness ==
  /\ pc = "merge"
  /\ fs[outFile.name] /= <<>>
  /\ \E j, k \in HeapFront(fileData) :
       /\ fileData[j].ptrFileReadFrom /= fileData[k].ptrFileReadFrom
       /\ fileData[j].numLeftToRead /= fileData[k].numLeftToRead
       /\ fileData[j].value = fs[outFile.name][Len(fs[outFile.name])]

\* An open stream in good state on the file name, at byte position p.
StreamAt(name, p) == [name |-> name, is_open |-> TRUE, fail |-> FALSE, pos |-> p]

\* The int boundaries of a file, its end included.
PositionsOf(name) == {k * IntSize : k \in 0 .. Len(fs[name])}

\* C19: fileLen leaves an open stream where it was: for every file of the
\* directory and every position p, the stream fileLen hands back is at p, in
\* good state, and the next read gives what it would have given without the
\* call; so it is where the program calls it, the input at 0 and each run
\* just past its first int.
C19_FileLenKeepsPosition ==
  /\ \A name \in DOMAIN fs : \A p \in PositionsOf(name) :
       LET s == StreamAt(name, p)
           after == fileLen(fs, s).stream
       IN  /\ after.pos = p
           /\ after = s
           /\ ReadInt(fs, after) = ReadInt(fs, s)
  /\ (pc = "makeLoop" /\ fileNumber = 0) => inFile.pos = 0 /\ ~inFile.fail
  /\ pc = "open" =>
       \A k \in 1 .. i : filesToMerge[k].pos = IntSize /\ ~filesToMerge[k].fail

\* C20: the count makeTempFiles takes from the byte length of the input is
\* the number of ints of the input, whatever its size, a byte length of
\* 2^(w-1) or more included, so that the runs it leaves hold every int of the
\* input.
C20_CountIsInputLength ==
  /\ (pc = "makeLoop" /\ fileNumber = 0) => amountLeftToRead = Len(Input)
  /\ pc = "mergeTempFiles" =>
       /\ Len(ConcatFiles(fs, LiveRuns)) = Len(Input)
       /\ numberOfFiles * maxFileInts >= Len(Input)

====
